---- MODULE Spec2Model ----
(***************************************************************************)
(* A model of the two pipelines of the repository:                         *)
(*   B. tools/candy-description-generator/generate.py, the resumable,      *)
(*      checkpointed batch loop of main() and its CSV helpers;             *)
(*   A. shopify-handles-generator/app.py, the handlers of POST /generate   *)
(*      and POST /upload.                                                  *)
(* A text (a Python str) is a sequence of symbols; a symbol is a TLA+      *)
(* string standing for one character or for one opaque run of characters   *)
(* without white space.  A CSV file is a sequence of lines, a line a       *)
(* sequence of cells, a cell a text.                                       *)
(***************************************************************************)
EXTENDS Integers, Sequences, FiniteSets, TLC

VARIABLES
    \* ---- pipeline B: the file system and the remote side
    input,          \* the input CSV file: its lines, the header first
    outfile,        \* the output CSV file: [exists, lines]
    calls,          \* the remote calls of the running process: row indices, in order
    \* ---- pipeline B: the process running main()
    pc,             \* "idle" (no process) | "loop" | "checkpoint" | "done"
    args,           \* [resume, limit] of the running process
    rows, fieldnames, completed_skus, buffer, processed, skipped, errors,
    idx,            \* the loop's position in rows (i + 1 of enumerate)
    \* ---- pipeline B: history
    out0,           \* the output file when this process started
    prev,           \* how the previous run ended and how many rows it was given
    run,            \* number of processes started so far
    faults,         \* failed or empty generations, and terminations, so far
    \* ---- pipeline A
    client,         \* whether the module-level client exists (api_key was set)
    greq,           \* the /generate request being handled, or NoRequest
    gresp,          \* the response to it, or NoResponse
    sent,           \* the user messages sent to the remote model for this request
    gremote,        \* what the remote call of this request did, or NoOutcome
    ureq,           \* the /upload request being handled, or NoRequest
    uresp           \* the response to it, or NoResponse

varsB == <<input, outfile, calls, pc, args, rows, fieldnames, completed_skus,
           buffer, processed, skipped, errors, idx, out0, prev, run, faults>>
varsG == <<client, greq, gresp, sent, gremote>>
varsU == <<ureq, uresp>>
vars == <<varsB, varsG, varsU>>

(***************************************************************************)
(* Bounds of the model.                                                    *)
(***************************************************************************)
\* Length of the long input file (data rows); one more than a checkpoint.
MaxRows == 11
\* Failed or empty generations, and terminations from outside, of a behaviour.
MaxFaults == 1
\* Processes started, one after the other, on the same input and output.
MaxRuns == 2
\* The positive value of --limit that is tried.
MaxLimit == 1
\* Data rows of an uploaded sheet.
MaxSheetRows == 2

\* config.SAVE_EVERY_N
SAVE_EVERY_N == 10

(***************************************************************************)
(* Texts.                                                                  *)
(***************************************************************************)
Whitespace == {" ", "\n", "\t"}
Digits == {"0", "1", "2", "3", "4", "5", "6", "7", "8", "9"}

Range(s) == {s[j] : j \in 1..Len(s)}

\* str.strip(): leading and trailing white space removed.
RECURSIVE LStrip(_)
LStrip(s) ==
    IF s # <<>> /\ Head(s) \in Whitespace THEN LStrip(Tail(s)) ELSE s

RECURSIVE RStrip(_)
RStrip(s) ==
    IF s # <<>> /\ s[Len(s)] \in Whitespace
    THEN RStrip(SubSeq(s, 1, Len(s) - 1)) ELSE s

Strip(s) == RStrip(LStrip(s))

\* str(n) of a natural number.
RECURSIVE IntText(_)
IntText(n) ==
    IF n < 10 THEN <<ToString(n)>> ELSE IntText(n \div 10) \o <<ToString(n % 10)>>

\* s.startswith(p)
StartsWith(s, p) == Len(s) >= Len(p) /\ SubSeq(s, 1, Len(p)) = p

\* sep.join(parts)
RECURSIVE Join(_, _)
Join(sep, parts) ==
    IF parts = <<>> THEN <<>>
    ELSE IF Len(parts) = 1 THEN parts[1]
    ELSE parts[1] \o sep \o Join(sep, Tail(parts))

\* s.split("\n")
RECURSIVE SplitLines(_)
SplitLines(s) ==
    IF \A j \in 1..Len(s) : s[j] # "\n" THEN <<s>>
    ELSE LET p == CHOOSE j \in 1..Len(s) :
                      s[j] = "\n" /\ \A k \in 1..(j - 1) : s[k] # "\n"
         IN <<SubSeq(s, 1, p - 1)>> \o SplitLines(SubSeq(s, p + 1, Len(s)))

RECURSIVE SeqFilter(_, _)
\* [x for x in s if x not in drop]
SeqFilter(s, drop) ==
    IF s = <<>> THEN <<>>
    ELSE (IF Head(s) \in drop THEN <<>> ELSE <<Head(s)>>) \o SeqFilter(Tail(s), drop)

(***************************************************************************)
(* Pipeline B: CSV files and row dicts.                                    *)
(***************************************************************************)
VariantSKU == <<"Variant SKU">>
NewDescription == <<"new_description">>
GenerationStatus == <<"generation_status">>
Success == <<"success">>
ErrorPrefix == <<"error:", " ">>

NoFile == [exists |-> FALSE, lines |-> <<>>]

\* list(csv.DictReader(f)): the first line names the fields; a row is
\* dict(zip(fieldnames, line)), and of two columns with the same name the later
\* one wins.
DictReader(lines) ==
    IF lines = <<>> THEN <<>>
    ELSE LET header == lines[1]
             col == [k \in Range(header) |->
                        CHOOSE c \in 1..Len(header) :
                            header[c] = k /\ \A d \in (c + 1)..Len(header) : header[d] # k]
         IN [j \in 1..(Len(lines) - 1) |-> [k \in DOMAIN col |-> lines[j + 1][col[k]]]]

\* row.get(key, default)
Get(row, key, default) == IF key \in DOMAIN row THEN row[key] ELSE default

load_input_csv(file) == DictReader(file)

RECURSIVE CompletedFrom(_, _, _)
\* The loop of load_completed_skus over the rows read, from row j on.
CompletedFrom(rs, j, completed) ==
    IF j > Len(rs) THEN completed
    ELSE LET row == rs[j]
             sku == Strip(Get(row, VariantSKU, <<>>))
         IN CompletedFrom(rs, j + 1,
                IF sku # <<>> /\ Strip(Get(row, NewDescription, <<>>)) # <<>>
                THEN completed \cup {sku} ELSE completed)

\* A variant that takes every row with a SKU for complete.
load_completed_skus_anyrow(file) ==
    IF ~file.exists THEN {}
    ELSE {Strip(Get(r, VariantSKU, <<>>)) : r \in Range(DictReader(file.lines))}
             \ {<<>>}

\* A variant that does not strip the SKU read from the file.
load_completed_skus_nostrip(file) ==
    IF ~file.exists THEN {}
    ELSE {Get(r, VariantSKU, <<>>) :
              r \in {q \in Range(DictReader(file.lines)) :
                         Strip(Get(q, NewDescription, <<>>)) # <<>>}} \ {<<>>}

load_completed_skus(file) ==
    IF ~file.exists THEN {}
    ELSE CompletedFrom(DictReader(file.lines), 1, {})

\* csv.DictWriter.writerow: the row's cells in the order of fieldnames.
WriteRow(fields, row) == [c \in 1..Len(fields) |-> Get(row, fields[c], <<>>)]

init_output_csv(file, fields) ==
    IF ~file.exists THEN [exists |-> TRUE, lines |-> <<fields>>] ELSE file

\* open(filepath, "a") creates the file when it is missing.
append_rows(file, fields, rs) ==
    [exists |-> TRUE,
     lines |-> file.lines \o [j \in 1..Len(rs) |-> WriteRow(fields, rs[j])]]

(***************************************************************************)
(* Pipeline B: the inputs of the model.                                    *)
(***************************************************************************)
Title == <<"Title">>
InputHeader == <<VariantSKU, Title>>

InputLine(sku) == <<sku, <<"Candy">>>>

\* An input file whose rows carry the given SKU cells.
InputFile(skus) == <<InputHeader>> \o [j \in 1..Len(skus) |-> InputLine(skus[j])]

\* n rows with pairwise different SKUs S1, S2, ...
UniqueSkus(n) == [j \in 1..n |-> <<"S">> \o IntText(j)]

SkuA == <<"A">>
SkuB == <<"B">>

\* The short inputs: no rows, a blank SKU, a padded SKU, the same SKU twice
\* (verbatim and up to padding), and the long input of MaxRows rows.
InputSamples ==
    { InputFile(<<>>),
      InputFile(<<SkuA>>),
      InputFile(<< <<>> >>),
      InputFile(<< <<" ", "A", " ">> >>),
      InputFile(<<SkuA, SkuB>>),
      InputFile(<<SkuA, SkuA>>),
      InputFile(<<SkuA, <<" ", "A">> >>),
      InputFile(<< <<>>, SkuA >>),
      InputFile(UniqueSkus(MaxRows)) }

NoLimit == -1
Limits == {NoLimit, 0, MaxLimit}
\* The values of --limit tried on an input: --limit 0 on the short inputs,
\* where all it does shows; on an input that reaches a checkpoint, none or the
\* positive one.
LimitsFor(file) ==
    IF Len(file) > SAVE_EVERY_N THEN Limits \ {0} ELSE Limits
NoArgs == [resume |-> FALSE, limit |-> NoLimit]
NoPrev == [how |-> "none", nrows |-> 0]

\* What one call of client.messages.create can do: return a text, or raise.
ResponseTexts == { <<"desc">>, <<" ", "desc", "\n">>, <<" ">> }
RemoteOutcomes ==
    [kind : {"text"}, text : ResponseTexts]
    \cup [kind : {"APIError", "Exception"}, text : {<<"overloaded">>}]

(***************************************************************************)
(* Pipeline B: main().                                                     *)
(***************************************************************************)
\* d[key] = value on a dict
DictSet(d, key, value) ==
    [k \in (DOMAIN d) \cup {key} |-> IF k = key THEN value ELSE d[k]]

\* list(rows[0].keys()): the header's names, each once, in order of first use.
RECURSIVE Keys(_)
Keys(header) ==
    IF header = <<>> THEN <<>>
    ELSE LET front == SubSeq(header, 1, Len(header) - 1)
             last == header[Len(header)]
         IN IF last \in Range(front) THEN Keys(front)
            ELSE Append(Keys(front), last)

\* rows = rows[: args.limit] under "if args.limit:"
LimitRows(rs, limit) ==
    IF limit # NoLimit /\ limit # 0
    THEN SubSeq(rs, 1, IF limit < Len(rs) THEN limit ELSE Len(rs))
    ELSE rs

\* Lines 153-157: the output's field names.
OutputFieldnames(rs, header) ==
    LET base == IF rs # <<>> THEN Keys(header) ELSE <<>>
        withDesc == IF NewDescription \notin Range(base)
                    THEN Append(base, NewDescription) ELSE base
    IN IF GenerationStatus \notin Range(withDesc)
       THEN Append(withDesc, GenerationStatus) ELSE withDesc

\* sku = (row.get("Variant SKU") or "").strip()
SkuOf(row) == Strip(Get(row, VariantSKU, <<>>))

\* generate_description's return value: message.content[0].text.strip()
generate_description(outcome) == Strip(outcome.text)

\* The try branch: the row after a successful generation.
SuccessRow(row, description) ==
    DictSet(DictSet(row, NewDescription, description), GenerationStatus, Success)

\* A variant that records the bare message as the status.
ErrorRow_bare(row, e) ==
    DictSet(DictSet(row, NewDescription, <<>>), GenerationStatus, e)

\* Either except branch: the row after a failed generation; e is str(e).
ErrorRow(row, e) ==
    DictSet(DictSet(row, NewDescription, <<>>), GenerationStatus, ErrorPrefix \o e)

\* Variants of the checkpoint test: one row late, one row early.
CheckpointDue_late(buf) == Len(buf) > SAVE_EVERY_N
CheckpointDue_early(buf) == Len(buf) >= SAVE_EVERY_N - 1

\* if len(buffer) >= config.SAVE_EVERY_N
CheckpointDue(buf) == Len(buf) >= SAVE_EVERY_N

IsFault(outcome) ==
    outcome.kind # "text" \/ generate_description(outcome) = <<>>

\* Lines 145-175: load the input, settle the field names, handle --resume.
Main_Start(resume, limit) ==
    /\ pc = "idle"
    /\ run < MaxRuns
    /\ LET rs == LimitRows(load_input_csv(input), limit)
           fields == OutputFieldnames(rs, IF input = <<>> THEN <<>> ELSE input[1])
           file == IF resume THEN outfile ELSE init_output_csv(outfile, fields)
       IN /\ rows' = rs
          /\ fieldnames' = fields
          /\ completed_skus' = IF resume THEN load_completed_skus(outfile) ELSE {}
          /\ outfile' = file
          /\ out0' = outfile
    /\ args' = [resume |-> resume, limit |-> limit]
    /\ buffer' = <<>>
    /\ processed' = 0
    /\ skipped' = 0
    /\ errors' = 0
    /\ idx' = 1
    /\ calls' = <<>>
    /\ run' = run + 1
    /\ pc' = "loop"
    /\ UNCHANGED <<varsG, varsU, input, prev, faults>>

\* Lines 178-182: a row whose SKU is complete is skipped.
Main_Skip ==
    /\ pc = "loop"
    /\ idx <= Len(rows)
    /\ SkuOf(rows[idx]) \in completed_skus
    /\ skipped' = skipped + 1
    /\ idx' = idx + 1
    /\ UNCHANGED <<varsG, varsU, input, outfile, calls, pc, args, rows, fieldnames, completed_skus,
                   buffer, processed, errors, out0, prev, run, faults>>

\* Lines 187-204: one remote call, the row's two new fields, buffer.append(row).
Main_Generate(outcome) ==
    /\ pc = "loop"
    /\ idx <= Len(rows)
    /\ SkuOf(rows[idx]) \notin completed_skus
    /\ IsFault(outcome) => faults < MaxFaults
    /\ LET row == IF outcome.kind = "text"
                  THEN SuccessRow(rows[idx], generate_description(outcome))
                  ELSE ErrorRow(rows[idx], outcome.text)
       IN /\ rows' = [rows EXCEPT ![idx] = row]
          /\ buffer' = Append(buffer, row)
    /\ processed' = IF outcome.kind = "text" THEN processed + 1 ELSE processed
    /\ errors' = IF outcome.kind = "text" THEN errors ELSE errors + 1
    /\ calls' = Append(calls, idx)
    /\ faults' = IF IsFault(outcome) THEN faults + 1 ELSE faults
    /\ pc' = "checkpoint"
    /\ UNCHANGED <<varsG, varsU, input, outfile, args, fieldnames, completed_skus, skipped, idx,
                   out0, prev, run>>

\* Lines 207-213: the checkpoint when it is due, the sleep, the next row.
Main_Checkpoint ==
    /\ pc = "checkpoint"
    /\ IF CheckpointDue(buffer)
       THEN /\ outfile' = append_rows(outfile, fieldnames, buffer)
            /\ buffer' = <<>>
       ELSE UNCHANGED <<outfile, buffer>>
    /\ idx' = idx + 1
    /\ pc' = "loop"
    /\ UNCHANGED <<varsG, varsU, input, calls, args, rows, fieldnames, completed_skus, processed,
                   skipped, errors, out0, prev, run, faults>>

\* A variant that ends the run without the final flush.
Main_Flush_nowrite ==
    /\ pc = "loop"
    /\ idx > Len(rows)
    /\ pc' = "done"
    /\ UNCHANGED <<varsG, varsU, input, outfile, calls, args, rows, fieldnames, completed_skus,
                   buffer, processed, skipped, errors, idx, out0, prev, run, faults>>

\* Lines 216-223: the final flush; the buffer is written and not cleared.
Main_Flush ==
    /\ pc = "loop"
    /\ idx > Len(rows)
    /\ outfile' = IF buffer # <<>> THEN append_rows(outfile, fieldnames, buffer)
                  ELSE outfile
    /\ pc' = "done"
    /\ UNCHANGED <<varsG, varsU, input, calls, args, rows, fieldnames, completed_skus, buffer,
                   processed, skipped, errors, idx, out0, prev, run, faults>>

\* The process is gone: nothing of it remains but the output file.
ProcessGone(how) ==
    /\ pc' = "idle"
    /\ prev' = [how |-> how, nrows |-> Len(rows)]
    /\ args' = NoArgs
    /\ rows' = <<>>
    /\ fieldnames' = <<>>
    /\ completed_skus' = {}
    /\ buffer' = <<>>
    /\ processed' = 0
    /\ skipped' = 0
    /\ errors' = 0
    /\ idx' = 1
    /\ calls' = <<>>
    /\ out0' = NoFile
    /\ faults' = IF how = "killed" THEN faults + 1 ELSE faults
    /\ UNCHANGED <<varsG, varsU, input, outfile, run>>

\* main() returns.
Main_Exit ==
    /\ pc = "done"
    /\ ProcessGone("completed")

\* The process is terminated from outside while the loop runs.
Kill ==
    /\ pc \in {"loop", "checkpoint"}
    /\ faults < MaxFaults
    /\ ProcessGone("killed")

InitB ==
    /\ input \in InputSamples
    /\ outfile = NoFile
    /\ calls = <<>>
    /\ pc = "idle"
    /\ args = NoArgs
    /\ rows = <<>>
    /\ fieldnames = <<>>
    /\ completed_skus = {}
    /\ buffer = <<>>
    /\ processed = 0
    /\ skipped = 0
    /\ errors = 0
    /\ idx = 1
    /\ out0 = NoFile
    /\ prev = NoPrev
    /\ run = 0
    /\ faults = 0

NoRequest == [kind |-> "none"]
NoResponse == [status |-> 0]

NoOutcome == [kind |-> "none"]

IdleG ==
    /\ client = FALSE
    /\ greq = NoRequest
    /\ gresp = NoResponse
    /\ sent = <<>>
    /\ gremote = NoOutcome

IdleU ==
    /\ ureq = NoRequest
    /\ uresp = NoResponse

NextB ==
    \/ \E resume \in BOOLEAN, limit \in LimitsFor(input) : Main_Start(resume, limit)
    \/ Main_Skip
    \/ \E outcome \in RemoteOutcomes : Main_Generate(outcome)
    \/ Main_Checkpoint
    \/ Main_Flush
    \/ Main_Exit
    \/ Kill

\* Pipeline B: runs of main(), one after the other, on one input and output.
InitSpecB == InitB /\ IdleG /\ IdleU

SpecB == InitSpecB /\ [][NextB]_vars

(***************************************************************************)
(* Pipeline A: POST /generate.                                             *)
(***************************************************************************)
\* The backquote character, and the fence of three of them.
Backquote == "<backquote>"
Fence == <<Backquote, Backquote, Backquote>>

\* One {product_name, handle} object of the answer, as one symbol.
Obj == "{product_name: x, handle: x}"

\* json.loads on the symbols "[", "]", ",", Obj: a value is Obj or an array of
\* values.  ParseValue gives the position after the value that starts at pos,
\* 0 when there is none.
RECURSIVE ParseValue(_, _)
RECURSIVE ParseElements(_, _)
ParseValue(toks, pos) ==
    IF pos > Len(toks) THEN 0
    ELSE IF toks[pos] = Obj THEN pos + 1
    ELSE IF toks[pos] # "[" THEN 0
    ELSE IF pos + 1 <= Len(toks) /\ toks[pos + 1] = "]" THEN pos + 2
    ELSE ParseElements(toks, pos + 1)

\* The elements of an array from pos on, up to and with its "]".
ParseElements(toks, pos) ==
    LET after == ParseValue(toks, pos)
    IN IF after = 0 \/ after > Len(toks) THEN 0
       ELSE IF toks[after] = "]" THEN after + 1
       ELSE IF toks[after] = "," THEN ParseElements(toks, after + 1)
       ELSE 0

\* White space between tokens means nothing to json.loads.
JsonTokens(text) == SeqFilter(text, Whitespace)

\* json.loads(text) raises JSONDecodeError
JsonInvalid(text) ==
    ParseValue(JsonTokens(text), 1) # Len(JsonTokens(text)) + 1

\* json.loads(text): the value, as its tokens
JsonLoads(text) == JsonTokens(text)

\* Lines 74-77: the first line and every line that is a bare fence are dropped.
StripFences(response_text) ==
    IF StartsWith(response_text, Fence)
    THEN LET lines == SplitLines(response_text)
             kept == SeqFilter(Tail(lines), {l \in Range(lines) : Strip(l) = Fence})
         IN Join(<<"\n">>, kept)
    ELSE response_text

\* Lines 54-62: the one prompt of the request.
RECURSIVE NumberedNames(_, _)
NumberedNames(names, j) ==
    IF j > Len(names) THEN <<>>
    ELSE IntText(j) \o <<".", " ">> \o names[j] \o <<"\n">> \o NumberedNames(names, j + 1)

UserMessage(product_names, existing_handles) ==
    <<"Generate Shopify handles for these products:", "\n", "\n">>
    \o NumberedNames(product_names, 1)
    \o (IF existing_handles # <<>>
        THEN <<"\n", "\n", "Already-used handles (must not duplicate):", " ">>
             \o Join(<<",", " ">>, existing_handles)
        ELSE <<>>)

\* The exception classes the remote call raises here, each with its base
\* classes, itself included (the hierarchy of the anthropic package, and a builtin).
Bases(class) ==
    CASE class = "AuthenticationError" -> {"AuthenticationError", "APIError", "Exception"}
      [] class = "RateLimitError" -> {"RateLimitError", "APIError", "Exception"}
      [] class = "APIConnectionError" -> {"APIConnectionError", "APIError", "Exception"}
      [] class = "APIError" -> {"APIError", "Exception"}
      [] OTHER -> {class, "Exception"}

\* A variant with the two API clauses in the other order.
ExceptClauses_swapped ==
    << [class |-> "APIError", status |-> 502,
        error |-> "Anthropic API error"],
       [class |-> "AuthenticationError", status |-> 401,
        error |-> "Invalid API key. Check your ANTHROPIC_API_KEY in the .env file."],
       [class |-> "Exception", status |-> 500,
        error |-> "Server error"] >>

\* Lines 86-91: the except clauses, in their order.
ExceptClauses ==
    << [class |-> "AuthenticationError", status |-> 401,
        error |-> "Invalid API key. Check your ANTHROPIC_API_KEY in the .env file."],
       [class |-> "APIError", status |-> 502,
        error |-> "Anthropic API error"],
       [class |-> "Exception", status |-> 500,
        error |-> "Server error"] >>

\* The response of the first clause that catches the class.
Caught(class) ==
    LET c == CHOOSE j \in 1..Len(ExceptClauses) :
                 /\ ExceptClauses[j].class \in Bases(class)
                 /\ \A k \in 1..(j - 1) : ExceptClauses[k].class \notin Bases(class)
    IN [status |-> ExceptClauses[c].status,
        body |-> [error |-> ExceptClauses[c].error]]

\* Lines 71-84: from the remote text to the response.
Answer(text) ==
    LET response_text == StripFences(Strip(text))
    IN IF JsonInvalid(response_text)
       THEN [status |-> 500,
             body |-> [error |-> "Failed to parse AI response", raw |-> response_text]]
       ELSE [status |-> 200, body |-> [results |-> JsonLoads(response_text)]]

TextArray == <<"[", Obj, "]">>
TextArrayPadded == <<" ", "[", Obj, ",", " ", Obj, "]", "\n">>
TextEmptyArray == <<"[", "]">>
TextFencedArray == Fence \o <<"json", "\n", "[", Obj, "]", "\n">> \o Fence
TextFencedBroken == Fence \o <<"json", "\n", "[", Obj, "\n">> \o Fence
TextFencedProse == Fence \o <<"\n", "oops", "\n">> \o Fence \o <<"\n">>
TextFencedOneLine == Fence \o <<"[", Obj, "]">> \o Fence
TextTrailingComma == <<"[", Obj, ",", "]">>
TextProse == <<"oops">>
TextBlank == <<" ">>

\* What the remote model may answer.
GenerateTexts ==
    { TextArray, TextArrayPadded, TextEmptyArray, TextFencedArray, TextFencedBroken,
      TextFencedProse, TextFencedOneLine, TextTrailingComma, TextProse, TextBlank }

GenerateOutcomes ==
    [kind : {"text"}, text : GenerateTexts]
    \cup [kind : {"raise"},
          class : {"AuthenticationError", "RateLimitError", "APIConnectionError",
                   "APIError", "IndexError"}]

NameSamples == { <<>>, << <<"Mike", " ", "&", " ", "Ike">> >>,
                 << <<"Mike", " ", "&", " ", "Ike">>, <<"Skittles">> >> }
HandleSamples == { <<>>, << <<"skittles">> >>, << <<"skittles">>, <<"lindt">> >> }

\* A request arrives: request.get_json().
GenerateRequest(product_names, existing_handles) ==
    /\ greq = NoRequest
    /\ greq' = [kind |-> "generate", product_names |-> product_names,
                existing_handles |-> existing_handles]
    /\ gresp' = NoResponse
    /\ sent' = <<>>
    /\ gremote' = NoOutcome
    /\ UNCHANGED <<varsB, varsU, client>>

\* The response has gone out; the next request may come.
GenerateDone ==
    /\ gresp # NoResponse
    /\ greq' = NoRequest
    /\ gresp' = NoResponse
    /\ sent' = <<>>
    /\ gremote' = NoOutcome
    /\ UNCHANGED <<varsB, varsU, client>>

\* Lines 42-91: generate_handles, with what its one remote call does.
generate_handles(outcome) ==
    /\ greq # NoRequest
    /\ gresp = NoResponse
    /\ IF ~client
       THEN /\ gresp' = [status |-> 500,
                         body |-> [error |-> "ANTHROPIC_API_KEY is not set. Add it to your .env file and restart the server."]]
            /\ UNCHANGED <<sent, gremote>>
       ELSE IF greq.product_names = <<>>
       THEN /\ gresp' = [status |-> 400, body |-> [error |-> "No product names provided"]]
            /\ UNCHANGED <<sent, gremote>>
       ELSE /\ sent' = Append(sent, UserMessage(greq.product_names, greq.existing_handles))
            /\ gremote' = outcome
            /\ gresp' = IF outcome.kind = "raise" THEN Caught(outcome.class)
                        ELSE Answer(outcome.text)
    /\ UNCHANGED <<varsB, varsU, client, greq>>

InitG ==
    /\ client \in BOOLEAN
    /\ greq = NoRequest
    /\ gresp = NoResponse
    /\ sent = <<>>
    /\ gremote = NoOutcome

InitBIdle ==
    /\ input = <<>>
    /\ outfile = NoFile
    /\ calls = <<>>
    /\ pc = "idle"
    /\ args = NoArgs
    /\ rows = <<>>
    /\ fieldnames = <<>>
    /\ completed_skus = {}
    /\ buffer = <<>>
    /\ processed = 0
    /\ skipped = 0
    /\ errors = 0
    /\ idx = 1
    /\ out0 = NoFile
    /\ prev = NoPrev
    /\ run = 0
    /\ faults = 0

NextG ==
    \/ \E names \in NameSamples, handles \in HandleSamples : GenerateRequest(names, handles)
    \/ \E outcome \in GenerateOutcomes : generate_handles(outcome)
    \/ GenerateDone

\* Pipeline A: requests to POST /generate, one after the other.
InitSpecG == InitG /\ InitBIdle /\ IdleU

SpecG == InitSpecG /\ [][NextG]_vars

(***************************************************************************)
(* Pipeline A: POST /upload.  A sheet is a grid of cells, a sequence of    *)
(* rows of one width; a cell is empty, a string or a number.               *)
(***************************************************************************)
None == [t |-> "none"]
StrCell(text) == [t |-> "str", v |-> text]
IntCell(n) == [t |-> "int", v |-> n]

\* str(value)
PyStr(cell) ==
    IF cell.t = "str" THEN cell.v
    ELSE IF cell.t = "int" THEN IntText(cell.v)
    ELSE <<"None">>

\* bool(value): None, "" and 0 are false.
Truthy(cell) ==
    \/ cell.t = "str" /\ cell.v # <<>>
    \/ cell.t = "int" /\ cell.v # 0

\* str(value or "")
StrOrEmpty(cell) == IF Truthy(cell) THEN PyStr(cell) ELSE <<>>

\* One character of str.lower()
LowerChar(c) ==
    CASE c = "N" -> "n"
      [] c = "T" -> "t"
      [] c = "I" -> "i"
      [] c = "C" -> "c"
      [] c = "U" -> "u"
      [] OTHER -> c

Lower(text) == [j \in 1..Len(text) |-> LowerChar(text[j])]

\* Line 113: the header strings that name the product column.
KnownHeaders ==
    { <<"p", "r", "o", "d", "u", "c", "t">>,
      <<"p", "r", "o", "d", "u", "c", "t", " ", "n", "a", "m", "e">>,
      <<"p", "r", "o", "d", "u", "c", "t", "_", "n", "a", "m", "e">>,
      <<"t", "i", "t", "l", "e">>,
      <<"n", "a", "m", "e">>,
      <<"i", "t", "e", "m">>,
      <<"i", "t", "e", "m", " ", "n", "a", "m", "e">> }

\* Line 112: the header of a column, as it is compared.
HeaderOf(sheet, col) == Strip(Lower(StrOrEmpty(sheet[1][col])))

\* Lines 111-115: the first column, from col on, whose header is known; 0 for
\* None.
RECURSIVE FindProductCol(_, _)
FindProductCol(sheet, col) ==
    IF col > Len(sheet[1]) THEN 0
    ELSE IF HeaderOf(sheet, col) \in KnownHeaders THEN col
    ELSE FindProductCol(sheet, col + 1)

\* A variant that takes row 1 for data only when its first cell starts with a
\* digit.
DefaultHeaderRow_digitonly(sheet) ==
    LET first_val == StrOrEmpty(sheet[1][1])
    IN IF first_val # <<>> /\ first_val[1] \in Digits THEN 0 ELSE 1

\* Lines 121-125: header_row when no header is known.
DefaultHeaderRow(sheet) ==
    LET first_val == StrOrEmpty(sheet[1][1])
    IN IF first_val # <<>> /\ first_val[1] \notin Digits THEN 1 ELSE 0

\* Lines 127-130: the names from row on, appended to product_names.
RECURSIVE CollectNames(_, _, _, _)
CollectNames(sheet, product_col, row, product_names) ==
    IF row > Len(sheet) THEN product_names
    ELSE LET val == sheet[row][product_col]
         IN CollectNames(sheet, product_col, row + 1,
                IF Truthy(val) /\ Strip(PyStr(val)) # <<>>
                THEN Append(product_names, Strip(PyStr(val)))
                ELSE product_names)

\* file.filename.endswith((".xlsx", ".xls"))
ExcelName(filename) ==
    filename # <<>> /\ filename[Len(filename)] \in {".xlsx", ".xls"}

CellSamples ==
    { None,
      StrCell(<<" ", "N", "a", "m", "e">>),
      StrCell(<<"7", "U", "p">>),
      StrCell(<<"C", "a", "n", "d", "y", " ">>),
      StrCell(<<" ">>),
      IntCell(0),
      IntCell(7) }

Widths == {1, 2}

\* The sheets of up to MaxSheetRows rows.
Sheets ==
    UNION { [1..h -> [1..w -> CellSamples]] : h \in 1..MaxSheetRows, w \in Widths }

Filenames == { <<"products", ".xlsx">>, <<"products", ".xls">>, <<"products", ".csv">> }

\* A request arrives, with a file or without.
UploadRequest(has_file, filename, sheet) ==
    /\ ureq = NoRequest
    /\ ureq' = [kind |-> "upload", has_file |-> has_file, filename |-> filename,
                sheet |-> sheet]
    /\ uresp' = NoResponse
    /\ UNCHANGED <<varsB, varsG>>

\* Lines 95-136: upload_file.
upload_file ==
    /\ ureq # NoRequest
    /\ uresp = NoResponse
    /\ uresp' =
          IF ~ureq.has_file
          THEN [status |-> 400, body |-> [error |-> "No file uploaded"]]
          ELSE IF ~ExcelName(ureq.filename)
          THEN [status |-> 400, body |-> [error |-> "Please upload an Excel file (.xlsx)"]]
          ELSE LET ws == ureq.sheet
                   found == FindProductCol(ws, 1)
                   product_col == IF found = 0 THEN 1 ELSE found
                   header_row == IF found = 0 THEN DefaultHeaderRow(ws) ELSE 1
               IN [status |-> 200,
                   body |-> [product_names |-> CollectNames(ws, product_col, header_row + 1, <<>>),
                             product_col |-> product_col,
                             header_row |-> header_row]]
    /\ UNCHANGED <<varsB, varsG, ureq>>

\* The response has gone out; the next request may come.
UploadDone ==
    /\ uresp # NoResponse
    /\ ureq' = NoRequest
    /\ uresp' = NoResponse
    /\ UNCHANGED <<varsB, varsG>>

NextU ==
    \/ /\ ureq = NoRequest
       /\ \E sheet \in Sheets, filename \in Filenames : UploadRequest(TRUE, filename, sheet)
    \/ UploadRequest(FALSE, <<>>, <<>>)
    \/ upload_file
    \/ UploadDone

InitSpecU == IdleU /\ InitBIdle /\ IdleG

\* Pipeline A: requests to POST /upload, one after the other.
SpecU == InitSpecU /\ [][NextU]_vars

(***************************************************************************)
(* Pipeline B: what the properties speak about.                            *)
(***************************************************************************)
Running == pc \in {"loop", "checkpoint"}

IsPrefix(s, t) == Len(s) <= Len(t) /\ SubSeq(t, 1, Len(s)) = s

\* The output file when the loop began: after init_output_csv of a fresh run.
LoopStart == IF args.resume THEN out0 ELSE init_output_csv(out0, fieldnames)

\* The lines this run has appended to the output file.
Appended == SubSeq(outfile.lines, Len(LoopStart.lines) + 1, Len(outfile.lines))

\* Records of this run whose generation was attempted and which are not in the
\* output file yet.
Unflushed == Len(calls) - Len(Appended)

\* The cell of a line under the column called name (the last one so called),
\* empty when the header has no such column.
CellOf(header, line, name) ==
    IF \E c \in 1..Len(header) : header[c] = name
    THEN line[CHOOSE c \in 1..Len(header) :
                  header[c] = name /\ \A d \in (c + 1)..Len(header) : header[d] # name]
    ELSE <<>>

\* The file has a data row whose trimmed SKU is k and whose new_description is
\* not blank.
HasCompleteRow(file, k) ==
    /\ file.exists
    /\ \E j \in 2..Len(file.lines) :
          /\ Strip(CellOf(file.lines[1], file.lines[j], VariantSKU)) = k
          /\ Strip(CellOf(file.lines[1], file.lines[j], NewDescription)) # <<>>

\* The column of a header called name (the last one so called), 0 for none.
ColumnOf(header, name) ==
    IF \E c \in 1..Len(header) : header[c] = name
    THEN CHOOSE c \in 1..Len(header) :
             header[c] = name /\ \A d \in (c + 1)..Len(header) : header[d] # name
    ELSE 0

\* The trimmed SKUs of the data rows of the file whose new_description is not
\* blank: the keys k with HasCompleteRow(file, k).
CompleteKeys(file) ==
    IF ~file.exists \/ file.lines = <<>> THEN {}
    ELSE LET sku_col == ColumnOf(file.lines[1], VariantSKU)
             desc_col == ColumnOf(file.lines[1], NewDescription)
         IN IF desc_col = 0 THEN {}
            ELSE {Strip(IF sku_col = 0 THEN <<>> ELSE file.lines[j][sku_col]) :
                      j \in {i \in 2..Len(file.lines) :
                                 Strip(file.lines[i][desc_col]) # <<>>}}

\* The file has a data row whose trimmed SKU is k.
HasRow(file, k) ==
    /\ file.exists
    /\ \E j \in 2..Len(file.lines) :
          Strip(CellOf(file.lines[1], file.lines[j], VariantSKU)) = k

\* The trimmed SKUs of the input and of the output file, and the empty one.
KeysInPlay ==
    {<<>>}
    \cup {Strip(input[j][1]) : j \in 2..Len(input)}
    \cup {Strip(CellOf(outfile.lines[1], outfile.lines[j], VariantSKU)) :
              j \in 2..Len(outfile.lines)}

\* Rows of this run the loop has dealt with.
Handled == {i \in 1..Len(rows) : i < idx \/ (i = idx /\ pc = "checkpoint")}

Called == Range(calls)

IsErrorRow(row) ==
    /\ GenerationStatus \in DOMAIN row
    /\ row[GenerationStatus] # Success

(***************************************************************************)
(* C1.  As stated: after a run of main() has gone to completion, a second  *)
(* run with --resume on the same input and output skips every row: no      *)
(* remote call, nothing appended, the output file as it was.  Stated for   *)
(* the runs most favourable to it: the second run is given no more rows    *)
(* than the first, the file starts with the header, no SKU is empty.       *)
(***************************************************************************)
C1_ResumeSkipsEverything ==
    ( /\ pc = "done" /\ args.resume
      /\ prev.how = "completed" /\ Len(rows) <= prev.nrows
      /\ out0.exists /\ out0.lines[1] = fieldnames
      /\ \A i \in 1..Len(rows) : SkuOf(rows[i]) # <<>> )
        => /\ calls = <<>>
           /\ skipped = Len(rows)
           /\ outfile = out0

(***************************************************************************)
(* C1, amended.  In a run with --resume that follows a completed run, a    *)
(* row is skipped exactly when its trimmed SKU is not empty and the output *)
(* file (read under its first line) has a row of that SKU with a non-blank *)
(* new_description; every other row (failed or empty generation, empty     *)
(* SKU, a file without header) gets one remote call and is appended; the   *)
(* lines the file held when the run started stay as they were, in place.   *)
(***************************************************************************)
C1_ResumeSkipsCompleteRows ==
    (pc # "idle" /\ args.resume /\ prev.how = "completed")
        => /\ IsPrefix(out0.lines, outfile.lines)
           /\ LET complete == CompleteKeys(out0)
              IN \A i \in Handled :
                    i \notin Called
                       <=> (SkuOf(rows[i]) # <<>> /\ SkuOf(rows[i]) \in complete)
           /\ skipped = Cardinality(Handled \ Called)
           /\ pc = "done" => Len(outfile.lines) = Len(out0.lines) + Len(calls)

C1_Witness ==
    /\ pc = "done" /\ args.resume /\ prev.how = "completed"
    /\ skipped > 0
    /\ calls # <<>>
    /\ Len(rows) <= prev.nrows

(***************************************************************************)
(* C2.  As stated: when the process is terminated after K checkpoints and  *)
(* M < SAVE_EVERY_N further processed rows, before the final flush, the    *)
(* output file contains exactly K * SAVE_EVERY_N data rows.                *)
(***************************************************************************)
C2_FileHoldsExactlyCheckpointedRows ==
    (Running /\ Len(buffer) < SAVE_EVERY_N)
        => Len(DictReader(outfile.lines))
               = ((processed + errors) \div SAVE_EVERY_N) * SAVE_EVERY_N

(***************************************************************************)
(* C2, amended.  When the process is terminated after K checkpoints and    *)
(* M < SAVE_EVERY_N further processed rows, before the final flush, this   *)
(* run has appended exactly K * SAVE_EVERY_N data rows to what the output  *)
(* file held when the loop began: the first K * SAVE_EVERY_N rows it       *)
(* processed, in order; the M trailing rows are in the buffer only.        *)
(***************************************************************************)
C2_RunAppendedCheckpointedRows ==
    (Running /\ Len(buffer) < SAVE_EVERY_N)
        => LET attempted == processed + errors
               K == attempted \div SAVE_EVERY_N
           IN /\ IsPrefix(LoopStart.lines, outfile.lines)
              /\ Len(Appended) = K * SAVE_EVERY_N
              /\ Len(buffer) = attempted % SAVE_EVERY_N
              /\ Len(calls) = attempted
              /\ \A k \in 1..Len(Appended) :
                    Appended[k] = WriteRow(fieldnames, rows[calls[k]])

C2_Witness ==
    /\ pc = "loop"
    /\ processed + errors > SAVE_EVERY_N
    /\ Len(buffer) > 0
    /\ Len(Appended) = SAVE_EVERY_N

(***************************************************************************)
(* C3.  A failed generation is not fatal: the record is buffered with an   *)
(* empty new_description and the status "error: <message>", it is counted  *)
(* in errors, and the run is done only when every row has been skipped or  *)
(* attempted.                                                              *)
(***************************************************************************)
C3_RowFailuresNotFatal ==
    /\ LET written == Appended \o [j \in 1..Len(buffer) |-> WriteRow(fieldnames, buffer[j])]
       IN \A k \in 1..Len(calls) :
          LET row == rows[calls[k]]
          IN /\ GenerationStatus \in DOMAIN row /\ NewDescription \in DOMAIN row
             /\ \/ row[GenerationStatus] = Success
                \/ /\ row[NewDescription] = <<>>
                   /\ StartsWith(row[GenerationStatus], ErrorPrefix)
                   /\ Len(row[GenerationStatus]) > Len(ErrorPrefix)
             /\ Running => written[k] = WriteRow(fieldnames, row)
    /\ errors = Cardinality({k \in 1..Len(calls) : IsErrorRow(rows[calls[k]])})
    /\ processed + errors = Len(calls)
    /\ pc = "done" => /\ idx = Len(rows) + 1
                      /\ Len(calls) + skipped = Len(rows)

C3_Witness ==
    /\ pc = "done"
    /\ errors > 0
    /\ \E k \in 1..Len(calls) :
          /\ IsErrorRow(rows[calls[k]])
          /\ \E m \in (k + 1)..Len(calls) : ~IsErrorRow(rows[calls[m]])

(***************************************************************************)
(* C4.  As stated: a key is in the set load_completed_skus returns if and  *)
(* only if the output file has a row of that key with a new_description    *)
(* that is not empty; for every key, the empty one too.                    *)
(***************************************************************************)
C4_CompleteIffRowWithText ==
    LET complete == load_completed_skus(outfile)
    IN \A k \in KeysInPlay : k \in complete <=> HasCompleteRow(outfile, k)

(***************************************************************************)
(* C4, amended.  A key is in the set load_completed_skus returns if and    *)
(* only if it is not empty and the output file has a row of that (trimmed) *)
(* key with a non-blank new_description; a row with an empty SKU is never  *)
(* complete.  A --resume run works with that set of the file it found, and *)
(* a record whose key has only failed rows there, or none, is generated    *)
(* again.                                                                  *)
(***************************************************************************)
C4_CompleteIffNonEmptyKeyWithText ==
    /\ load_completed_skus(outfile) = CompleteKeys(outfile) \ {<<>>}
    /\ (pc # "idle" /\ args.resume) =>
          LET complete == CompleteKeys(out0)
          IN /\ completed_skus = complete \ {<<>>}
             /\ \A i \in Handled : SkuOf(rows[i]) \notin complete => i \in Called

C4_Witness ==
    /\ pc = "done" /\ args.resume
    /\ \E i \in Called :
          /\ SkuOf(rows[i]) # <<>>
          /\ HasRow(out0, SkuOf(rows[i]))
          /\ ~HasCompleteRow(out0, SkuOf(rows[i]))
    /\ \E i \in Handled : i \notin Called

C9_LossBelowThreshold ==
    Running => Unflushed <= SAVE_EVERY_N - 1

(***************************************************************************)
(* C9, amended.  Wherever the process can be terminated, at most           *)
(* SAVE_EVERY_N records of this run have been processed and not yet        *)
(* appended: at most SAVE_EVERY_N - 1 between two iterations of the loop,  *)
(* and SAVE_EVERY_N only between buffering a record and the checkpoint     *)
(* that this record makes due.  Those records are the buffer.              *)
(***************************************************************************)
C9_LossAtMostThreshold ==
    /\ pc # "idle" => Unflushed <= SAVE_EVERY_N
    /\ pc = "loop" => Unflushed <= SAVE_EVERY_N - 1
    /\ Running => Unflushed = Len(buffer)
    /\ pc = "done" => Unflushed = 0

C9_Witness ==
    /\ pc = "checkpoint"
    /\ Unflushed = SAVE_EVERY_N

(***************************************************************************)
(* C10.  As stated: the loop makes one remote call for each row that is    *)
(* not skipped and none for a skipped row, and when the run completes the  *)
(* buffer is empty and every row that was not skipped has been appended    *)
(* once, in input order.                                                   *)
(***************************************************************************)
CallsInOrder ==
    /\ \A k \in 1..Len(calls) : calls[k] \in 1..Len(rows)
    /\ \A k, m \in 1..Len(calls) : k < m => calls[k] < calls[m]

RowsAreInputPrefix ==
    LET loaded == load_input_csv(input)
        n == IF args.limit \in {NoLimit, 0} \/ args.limit > Len(loaded)
             THEN Len(loaded) ELSE args.limit
    IN /\ Len(rows) = n
       /\ \A i \in 1..n : \A f \in Range(InputHeader) : rows[i][f] = loaded[i][f]

EveryRowCalledOrSkipped ==
    /\ idx = Len(rows) + 1
    /\ Called = {i \in 1..Len(rows) : SkuOf(rows[i]) \notin completed_skus}
    /\ skipped = Len(rows) - Len(calls)
    /\ outfile.lines
           = LoopStart.lines \o [k \in 1..Len(calls) |-> WriteRow(fieldnames, rows[calls[k]])]

ParsableTexts == {TextArray, TextArrayPadded, TextEmptyArray, TextFencedArray}

\* The answers that are a fenced block around something that is not JSON.
FencedBrokenTexts == {TextFencedBroken, TextFencedProse}

IsError(resp) == DOMAIN resp.body = {"error"} \/ DOMAIN resp.body = {"error", "raw"}

(***************************************************************************)
(* C6.  POST /generate: without a credential the answer is 500, with an    *)
(* empty product_names it is 400, and in both cases no remote call is      *)
(* made; otherwise exactly one remote call is made, and the answer is 401  *)
(* when it raises an authentication failure, 502 when it raises another    *)
(* API failure, 500 when anything else fails (the parse of the text        *)
(* included), and 200 with the results otherwise.                          *)
(***************************************************************************)
C6_ErrorClassification ==
    gresp # NoResponse =>
        /\ ~client => gresp.status = 500 /\ IsError(gresp) /\ sent = <<>>
        /\ (client /\ greq.product_names = <<>>) =>
              gresp.status = 400 /\ IsError(gresp) /\ sent = <<>>
        /\ (client /\ greq.product_names # <<>>) =>
              /\ Len(sent) = 1
              /\ gremote # NoOutcome
              /\ gremote.kind = "raise" =>
                    /\ IsError(gresp)
                    /\ gresp.status =
                          IF gremote.class = "AuthenticationError" THEN 401
                          ELSE IF gremote.class \in {"APIError", "RateLimitError",
                                                     "APIConnectionError"} THEN 502
                          ELSE 500
              /\ (gremote.kind = "text" /\ gremote.text \in ParsableTexts) =>
                    gresp.status = 200 /\ DOMAIN gresp.body = {"results"}
              /\ (gremote.kind = "text" /\ gremote.text \notin ParsableTexts) =>
                    gresp.status = 500 /\ IsError(gresp)

C6_Witness ==
    /\ gresp # NoResponse
    /\ gresp.status = 401
    /\ Len(sent) = 1
    /\ greq.existing_handles # <<>>

(***************************************************************************)
(* C7.  As stated: when the remote answer is a fenced block around         *)
(* something that is not JSON, the response is the parse failure, it       *)
(* carries the text the remote returned, verbatim, and no results.         *)
(***************************************************************************)
C7_RawIsRemoteText ==
    (gresp # NoResponse /\ gremote.kind = "text" /\ gremote.text \in FencedBrokenTexts)
        => /\ gresp.status = 500
           /\ DOMAIN gresp.body = {"error", "raw"}
           /\ gresp.body.error = "Failed to parse AI response"
           /\ gresp.body.raw = gremote.text

(***************************************************************************)
(* C8.  As stated: when no cell of row 1 is a known header, column 1 is    *)
(* chosen, and header_row is 0 if and only if the first character of the   *)
(* first cell is a digit, 1 otherwise; the names are the trimmed non-empty *)
(* cells of the chosen column below the header row, in row order.  Stated  *)
(* for the sheets it fits best, those without numbers in the chosen        *)
(* column.                                                                 *)
(***************************************************************************)
Uploaded == ureq # NoRequest /\ uresp # NoResponse /\ uresp.status = 200

NoKnownHeader(sheet) ==
    \A col \in 1..Len(sheet[1]) :
        Strip(Lower(StrOrEmpty(sheet[1][col]))) \notin KnownHeaders

\* The cells of a column from a row on, top down.
ColumnFrom(sheet, col, row) ==
    [j \in 1..(IF row > Len(sheet) THEN 0 ELSE Len(sheet) - row + 1) |->
        sheet[row + j - 1][col]]

RECURSIVE TrimmedTexts(_, _)
\* The trimmed texts of the cells of a sequence that are wanted and not blank.
TrimmedTexts(cells, wanted) ==
    IF cells = <<>> THEN <<>>
    ELSE (IF Head(cells) \in wanted /\ Strip(PyStr(Head(cells))) # <<>>
          THEN <<Strip(PyStr(Head(cells)))>> ELSE <<>>)
         \o TrimmedTexts(Tail(cells), wanted)

C8_HeaderRowZeroIffDigit ==
    Uploaded =>
        LET sheet == ureq.sheet
            body == uresp.body
            column == ColumnFrom(sheet, body.product_col, 1)
        IN (\A j \in 1..Len(column) : column[j].t # "int") =>
              /\ NoKnownHeader(sheet) =>
                    /\ body.product_col = 1
                    /\ body.header_row \in {0, 1}
                    /\ body.header_row = 0
                          <=> (sheet[1][1] # None /\ PyStr(sheet[1][1]) # <<>>
                               /\ PyStr(sheet[1][1])[1] \in Digits)
              /\ body.product_names
                    = TrimmedTexts(ColumnFrom(sheet, body.product_col, body.header_row + 1),
                                   {c \in Range(column) : c # None})

(***************************************************************************)
(* C8, amended.  When no cell of row 1 is a known header, column 1 is      *)
(* chosen, and header_row is 0 if and only if the first cell is empty (no  *)
(* value, the empty string, the number 0) or its first character is a      *)
(* digit, 1 otherwise; when a cell of row 1 is a known header, the first   *)
(* such column is chosen and header_row is 1.  The names are the trimmed   *)
(* texts of the cells of the chosen column below the header row that hold  *)
(* a value other than the number 0 and are not blank, in row order.        *)
(***************************************************************************)
C8_HeaderRowZeroIffEmptyOrDigit ==
    Uploaded =>
        LET sheet == ureq.sheet
            body == uresp.body
            first == sheet[1][1]
            column == ColumnFrom(sheet, body.product_col, 1)
        IN /\ NoKnownHeader(sheet) =>
                 /\ body.product_col = 1
                 /\ body.header_row \in {0, 1}
                 /\ body.header_row = 0
                       <=> \/ first = None
                           \/ first = StrCell(<<>>)
                           \/ first = IntCell(0)
                           \/ PyStr(first)[1] \in Digits
           /\ ~NoKnownHeader(sheet) =>
                 /\ body.header_row = 1
                 /\ body.product_col \in 1..Len(sheet[1])
                 /\ Strip(Lower(StrOrEmpty(sheet[1][body.product_col]))) \in KnownHeaders
                 /\ \A col \in 1..(body.product_col - 1) :
                       Strip(Lower(StrOrEmpty(sheet[1][col]))) \notin KnownHeaders
           /\ body.product_names
                 = TrimmedTexts(ColumnFrom(sheet, body.product_col, body.header_row + 1),
                                {c \in Range(column) : c # None /\ c # IntCell(0)})

C8_Witness ==
    /\ Uploaded
    /\ NoKnownHeader(ureq.sheet)
    /\ uresp.body.header_row = 0
    /\ ureq.sheet[1][1] = StrCell(<<"7", "U", "p">>)
    /\ Len(uresp.body.product_names) = Len(ureq.sheet)
    /\ uresp.body.product_names[1] = <<"7", "U", "p">>

====
